---- MODULE Spec2Model ----
(***************************************************************************)
(* The causal tree of mindbeam/editor-experiment: src/src/node.rs (Node,   *)
(* NodeId, Action, node_id, project) together with the collaborators it    *)
(* calls: the Document that owns the clock and the Identifier->Operation   *)
(* mapping (crate::document), the Cursor (crate::cursor) and the MutStr    *)
(* text buffer (crate::util::mutstr).                                      *)
(*                                                                         *)
(* Strings and buffers are sequences of bytes (UTF-8), a NodeId is a       *)
(* sequence of bytes compared lexicographically, Option<T> is <<>> for     *)
(* None and <<v>> for Some(v).                                             *)
(***************************************************************************)
EXTENDS Integers, Sequences, FiniteSets, TLC

VARIABLES
    hist,      \* the History's mapping, its entries in arrival order
    clock,     \* the History's logical clock
    last,      \* Option<Node>: the Operation made or projected last
    created,   \* the Operations that took their tick from this clock
    res,       \* Option<Result>: what the last History insertion returned
    peer,      \* a second replica's History
    buf,       \* a renderer's live MutStr
    prev,      \* the live MutStr before the last project call
    lim,       \* the limit of the last project call
    ret,       \* Option<isize>: what the last project call returned
    panicked,  \* the last project call panicked
    n1, n2,    \* two Nodes
    id1, id2,  \* Option<NodeId>: their Identifiers, once computed
    th         \* per thread, Option<Node>: the Operation its call is making
vars == <<hist, clock, last, created, res, peer, buf, prev, lim, ret, panicked,
          n1, n2, id1, id2, th>>

(***************************************************************************)
(* Bounds of the model.                                                    *)
(***************************************************************************)
MaxNodes == 3     \* Operations one History holds, the root included
MaxClock == 3     \* the clock is not advanced past this value
MaxBuf == 3       \* bytes in the live buffer
MaxLimit == 2     \* project's limit: None or Some(0..MaxLimit)
MaxPos == 2       \* offsets of the Operations projected: 0..MaxPos

(***************************************************************************)
(* Option<T>                                                               *)
(***************************************************************************)
None == <<>>
Some(v) == <<v>>
IsSome(o) == o # <<>>
Unwrap(o) == o[1]

Min(a, b) == IF a <= b THEN a ELSE b

(***************************************************************************)
(* Action, NodeId, Node                                                    *)
(***************************************************************************)
Null == [tag |-> "Null"]
InsertAction(offset, body) == [tag |-> "Insert", offset |-> offset, body |-> body]
DeleteAction(offset) == [tag |-> "Delete", offset |-> offset]

IdLen == 32
\* static NULL: &[u8; 32] = &[0; 32]
NULL == [i \in 1..IdLen |-> 0]

\* Node::new
new(tick, parent, action) == [tick |-> tick, parent |-> parent, action |-> action]

\* Node::root
root(tick) == [tick |-> tick, parent |-> None, action |-> Null]

\* Node::parent, were it to lose the parent
parent_none(self) == None

\* Node::parent
parent(self) == self.parent

(***************************************************************************)
(* serde_json::to_writer of a u32 and of an Action                         *)
(***************************************************************************)
RECURSIVE JsonU32(_)
\* the decimal digits of n, most significant first, no sign, no padding
JsonU32(n) == IF n < 10 THEN <<48 + n>> ELSE JsonU32(n \div 10) \o <<48 + (n % 10)>>

RECURSIVE JsonEscape(_)
\* '"' becomes \" and '\' becomes \\; every other byte this model uses
\* (no control characters) is written as it is
JsonEscape(s) ==
    IF s = <<>> THEN <<>>
    ELSE (IF Head(s) = 34 \/ Head(s) = 92 THEN <<92, Head(s)>> ELSE <<Head(s)>>)
         \o JsonEscape(Tail(s))

JsonString(s) == <<34>> \o JsonEscape(s) \o <<34>>

\* a unit variant is its name as a string; a struct variant is
\* {"Variant":{"field":value,...}} with the fields in declaration order
JsonAction(a) ==
    CASE a.tag = "Null" ->
            \* "Null"
            <<34, 78, 117, 108, 108, 34>>
      [] a.tag = "Insert" ->
            \* {"Insert":{"offset":
            <<123, 34, 73, 110, 115, 101, 114, 116, 34, 58,
              123, 34, 111, 102, 102, 115, 101, 116, 34, 58>>
            \o JsonU32(a.offset)
            \* ,"body":
            \o <<44, 34, 98, 111, 100, 121, 34, 58>>
            \o JsonString(a.body)
            \o <<125, 125>>
      [] a.tag = "Delete" ->
            \* {"Delete":{"offset":
            <<123, 34, 68, 101, 108, 101, 116, 101, 34, 58,
              123, 34, 111, 102, 102, 115, 101, 116, 34, 58>>
            \o JsonU32(a.offset)
            \o <<125, 125>>

(***************************************************************************)
(* Node::node_id.  Sha512Trunc256 is collision resistant: the model takes  *)
(* it to be collision free and writes the digest of a message as the       *)
(* message, so that two Identifiers are equal exactly when the bytes fed   *)
(* to the hasher are.  What node_id feeds the hasher is modelled byte for  *)
(* byte.                                                                   *)
(***************************************************************************)
Sha512Trunc256(msg) == msg

\* the hasher's input, were the tick left out of it
HashInput_no_tick(self) ==
    (IF IsSome(parent(self)) THEN Unwrap(parent(self)) ELSE NULL)
    \o JsonAction(self.action)

\* the hasher's input, were the tick of an Operation that has a parent
\* read from the History's clock
HashInput_clock(self) ==
    (IF IsSome(parent(self)) THEN Unwrap(parent(self)) ELSE NULL)
    \o JsonU32(IF IsSome(parent(self)) THEN clock ELSE self.tick)
    \o JsonAction(self.action)

HashInput(self) ==
    (IF IsSome(parent(self)) THEN Unwrap(parent(self)) ELSE NULL)
    \o JsonU32(self.tick)
    \o JsonAction(self.action)

node_id(self) == Sha512Trunc256(HashInput(self))

\* the order of NodeId, were it the reverse
IdLess_rev(a, b) ==
    \E i \in 1..(Min(Len(a), Len(b)) + 1) :
        /\ \A j \in 1..(i - 1) : a[j] = b[j]
        /\ \/ i > Len(b) /\ i <= Len(a)
           \/ i <= Len(a) /\ i <= Len(b) /\ b[i] < a[i]

\* #[derive(Ord)] on NodeId([u8; 32]): lexicographic over the bytes
IdLess(a, b) ==
    \E i \in 1..(Min(Len(a), Len(b)) + 1) :
        /\ \A j \in 1..(i - 1) : a[j] = b[j]
        /\ \/ i > Len(a) /\ i <= Len(b)
           \/ i <= Len(a) /\ i <= Len(b) /\ a[i] < b[i]

(***************************************************************************)
(* MutStr (crate::util::mutstr): a mutable sequence of bytes.  An offset   *)
(* past the end is clamped to the end.                                     *)
(***************************************************************************)
insert_str(b, idx, s) ==
    LET at == Min(idx, Len(b))
    IN  SubSeq(b, 1, at) \o s \o SubSeq(b, at + 1, Len(b))

remove(b, idx) ==
    IF idx < Len(b) THEN SubSeq(b, 1, idx) \o SubSeq(b, idx + 2, Len(b)) ELSE b

(***************************************************************************)
(* Node::project                                                           *)
(***************************************************************************)
\* str::is_char_boundary: 0, the length, or the first byte of a character
is_char_boundary(s, i) ==
    \/ i = 0
    \/ i = Len(s)
    \/ i < Len(s) /\ ~(s[i + 1] >= 128 /\ s[i + 1] < 192)

\* project, were it to put the text at the start of the buffer
project_at_start(self, b, limit) ==
    CASE self.action.tag = "Null" ->
            [buf |-> b, ret |-> 0, panic |-> FALSE]
      [] self.action.tag = "Insert" ->
            LET body == self.action.body
                end == IF IsSome(limit) THEN Min(Len(body), Unwrap(limit)) ELSE Len(body)
                slice == SubSeq(body, 1, end)
            IN  IF ~is_char_boundary(body, end)
                THEN [buf |-> b, ret |-> 0, panic |-> TRUE]
                ELSE [buf |-> insert_str(b, 0, slice),
                      ret |-> Len(slice), panic |-> FALSE]
      [] self.action.tag = "Delete" ->
            [buf |-> remove(b, self.action.offset), ret |-> -1, panic |-> FALSE]

\* project, were it to push the text at the end of the buffer
project_push(self, b, limit) ==
    CASE self.action.tag = "Null" ->
            [buf |-> b, ret |-> 0, panic |-> FALSE]
      [] self.action.tag = "Insert" ->
            LET body == self.action.body
                end == IF IsSome(limit) THEN Min(Len(body), Unwrap(limit)) ELSE Len(body)
                slice == SubSeq(body, 1, end)
            IN  IF ~is_char_boundary(body, end)
                THEN [buf |-> b, ret |-> 0, panic |-> TRUE]
                ELSE [buf |-> b \o slice, ret |-> Len(slice), panic |-> FALSE]
      [] self.action.tag = "Delete" ->
            [buf |-> remove(b, self.action.offset), ret |-> -1, panic |-> FALSE]

\* project, were a Delete to remove the unit after the one at its offset
project_delete_next(self, b, limit) ==
    CASE self.action.tag = "Null" ->
            [buf |-> b, ret |-> 0, panic |-> FALSE]
      [] self.action.tag = "Insert" ->
            LET body == self.action.body
                end == IF IsSome(limit) THEN Min(Len(body), Unwrap(limit)) ELSE Len(body)
                slice == SubSeq(body, 1, end)
            IN  IF ~is_char_boundary(body, end)
                THEN [buf |-> b, ret |-> 0, panic |-> TRUE]
                ELSE [buf |-> insert_str(b, self.action.offset, slice),
                      ret |-> Len(slice), panic |-> FALSE]
      [] self.action.tag = "Delete" ->
            [buf |-> remove(b, self.action.offset + 1), ret |-> -1, panic |-> FALSE]

\* project, were it to return body.len() in place of slice.len()
project_body_len(self, b, limit) ==
    CASE self.action.tag = "Null" ->
            [buf |-> b, ret |-> 0, panic |-> FALSE]
      [] self.action.tag = "Insert" ->
            LET body == self.action.body
                end == IF IsSome(limit) THEN Min(Len(body), Unwrap(limit)) ELSE Len(body)
                slice == SubSeq(body, 1, end)
            IN  IF ~is_char_boundary(body, end)
                THEN [buf |-> b, ret |-> 0, panic |-> TRUE]
                ELSE [buf |-> insert_str(b, self.action.offset, slice),
                      ret |-> Len(body), panic |-> FALSE]
      [] self.action.tag = "Delete" ->
            [buf |-> remove(b, self.action.offset), ret |-> -1, panic |-> FALSE]

\* &body[0..end] panics when end is not on a character boundary
project(self, b, limit) ==
    CASE self.action.tag = "Null" ->
            [buf |-> b, ret |-> 0, panic |-> FALSE]
      [] self.action.tag = "Insert" ->
            LET body == self.action.body
                end == IF IsSome(limit) THEN Min(Len(body), Unwrap(limit)) ELSE Len(body)
                slice == SubSeq(body, 1, end)
            IN  IF ~is_char_boundary(body, end)
                THEN [buf |-> b, ret |-> 0, panic |-> TRUE]
                ELSE [buf |-> insert_str(b, self.action.offset, slice),
                      ret |-> Len(slice), panic |-> FALSE]
      [] self.action.tag = "Delete" ->
            [buf |-> remove(b, self.action.offset), ret |-> -1, panic |-> FALSE]

(***************************************************************************)
(* History (crate::document): the clock and the Identifier->Operation      *)
(* mapping.  A History is the sequence of its Operations in arrival order; *)
(* it is constructed holding the root, which takes tick 0 from the clock.  *)
(***************************************************************************)
Ok(id) == [ok |-> TRUE, id |-> id]
Err(kind) == [ok |-> FALSE, err |-> kind]

\* increment_clock, were the incremented value never stored
increment_clock_lost(c) == [tick |-> c, clock |-> c]

\* returns the value before the increment, then advances by one
increment_clock(c) == [tick |-> c, clock |-> c + 1]

\* an entry of the mapping: the Identifier and the Operation stored under it
Entry(id, op) == [id |-> id, op |-> op]

ids(h) == {h[i].id : i \in 1..Len(h)}

ops(h) == {h[i].op : i \in 1..Len(h)}

get(h, id) ==
    IF \E i \in 1..Len(h) : h[i].id = id
    THEN Some(h[CHOOSE i \in 1..Len(h) : h[i].id = id].op)
    ELSE None

\* History insertion, were a stored Operation stored again
History_insert_again(h, op) ==
    LET id == node_id(op)
    IN  IF IsSome(parent(op)) /\ Unwrap(parent(op)) \notin ids(h)
        THEN [hist |-> h, res |-> Err("DanglingParent")]
        ELSE [hist |-> Append(h, Entry(id, op)), res |-> Ok(id)]

History_insert(h, op) ==
    LET id == node_id(op)
    IN  IF IsSome(parent(op)) /\ Unwrap(parent(op)) \notin ids(h)
        THEN [hist |-> h, res |-> Err("DanglingParent")]
        ELSE IF id \in ids(h)
        THEN IF Unwrap(get(h, id)) = op
             THEN [hist |-> h, res |-> Ok(id)]
             ELSE [hist |-> h, res |-> Err("DuplicateIdentifier")]
        ELSE [hist |-> Append(h, Entry(id, op)), res |-> Ok(id)]

\* a History as constructed: the root, made with the clock's first tick
History_new ==
    LET t == increment_clock(0)
    IN  [hist |-> <<Entry(node_id(root(t.tick)), root(t.tick))>>, clock |-> t.clock]

RECURSIVE SortAsc(_)
\* the Identifiers of S, ascending
SortAsc(S) ==
    IF S = {} THEN <<>>
    ELSE LET m == CHOOSE x \in S : \A y \in S \ {x} : IdLess(x, y)
         IN  <<m>> \o SortAsc(S \ {m})

\* children_of, were the children left in arrival order
children_of_arrival(h, id) ==
    LET c == SelectSeq(h, LAMBDA e : parent(e.op) = Some(id))
    IN  [i \in 1..Len(c) |-> c[i].id]

children_of(h, id) ==
    SortAsc({h[i].id : i \in {j \in 1..Len(h) : parent(h[j].op) = Some(id)}})

RECURSIVE visit(_, _, _), visit_all(_, _, _)
\* pre-order: the node's own payload, then its children in order
visit(h, id, b) ==
    visit_all(h, children_of(h, id), project(Unwrap(get(h, id)), b, None).buf)
visit_all(h, seq, b) ==
    IF seq = <<>> THEN b ELSE visit_all(h, Tail(seq), visit(h, Head(seq), b))

\* replay starts at the root, the Operation the History was constructed with
materialize(h) == visit(h, h[1].id, <<>>)

(***************************************************************************)
(* Cursor (crate::cursor) and the Operation factory: Node::insert and      *)
(* Node::delete, which take their tick from the clock of cursor.doc().     *)
(* Each yields the new Node and the clock as the call leaves it.           *)
(***************************************************************************)
Cursor(id, off) == [node_id |-> id, offset |-> off]

\* Node::insert, were it to read the clock and leave it as it is
insert_stale(cursor, body, c) ==
    [node |-> [tick |-> c,
               action |-> InsertAction(cursor.offset, body),
               parent |-> Some(cursor.node_id)],
     clock |-> c]

insert(cursor, body, c) ==
    LET t == increment_clock(c)
    IN  [node |-> [tick |-> t.tick,
                   action |-> InsertAction(cursor.offset, body),
                   parent |-> Some(cursor.node_id)],
         clock |-> t.clock]

\* Node::delete, were it to leave the Cursor's offset out
delete_at_start(cursor, c) ==
    LET t == increment_clock(c)
    IN  [node |-> [tick |-> t.tick,
                   action |-> DeleteAction(0),
                   parent |-> Some(cursor.node_id)],
         clock |-> t.clock]

delete(cursor, c) ==
    LET t == increment_clock(c)
    IN  [node |-> [tick |-> t.tick,
                   action |-> DeleteAction(cursor.offset),
                   parent |-> Some(cursor.node_id)],
         clock |-> t.clock]

(***************************************************************************)
(* The inputs the model draws.                                             *)
(***************************************************************************)
\* "H", "e"
Bodies == {<<72>>, <<101>>}

\* ticks of Operations made by other replicas
RemoteTicks == {0, 1}

\* offsets of the Operations a History is given
Offsets == {0}

Actions(offsets, bodies) ==
    {Null} \cup {InsertAction(o, s) : o \in offsets, s \in bodies}
           \cup {DeleteAction(o) : o \in offsets}

Cursors(h) == {Cursor(id, o) : id \in ids(h), o \in Offsets}

\* Operations made elsewhere (Node::new): no parent, a parent the History
\* holds, or NodeId([0; 32]), which no History holds
Parents(h) == {None, Some(NULL)} \cup {Some(id) : id \in ids(h)}

\* the threads that share one History
Threads == {1, 2}

RemoteOps(h) ==
    {new(t, p, a) : t \in RemoteTicks, p \in Parents(h), a \in Actions(Offsets, Bodies)}

Init ==
    /\ hist = History_new.hist
    /\ clock = History_new.clock
    /\ created = <<History_new.hist[1].op>>
    /\ last = None
    /\ res = None
    /\ peer = History_new.hist
    /\ buf = <<>>
    /\ prev = <<>>
    /\ lim = None
    /\ ret = None
    /\ panicked = FALSE
    /\ n1 = root(0)
    /\ n2 = root(0)
    /\ id1 = None
    /\ id2 = None
    /\ th = [t \in Threads |-> None]

(***************************************************************************)
(* Spec: one History fed by the transport, which delivers Operations made  *)
(* by other replicas in any order, duplicates included.                    *)
(***************************************************************************)
Receive(op) ==
    /\ LET r == History_insert(hist, op)
       IN  /\ Len(r.hist) <= MaxNodes
           /\ hist' = r.hist
           /\ res' = Some(r.res)
    /\ UNCHANGED <<clock, last, created, peer, buf, prev, lim, ret, panicked, n1, n2, id1, id2, th>>

Next == \E op \in RemoteOps(hist) : Receive(op)

Spec == Init /\ [][Next]_vars

(***************************************************************************)
(* SpecEdit: one History edited locally.  Node::insert and Node::delete    *)
(* make an Operation at a Cursor, Node::root makes a root with the tick it *)
(* is given; Store moves the Operation made last into the History.         *)
(***************************************************************************)
\* Node::insert, were it to store the Operation it makes
Insert_storing(cursor, body) ==
    /\ clock < MaxClock
    /\ Len(hist) < MaxNodes
    /\ LET r == insert(cursor, body, clock)
       IN  /\ last' = Some(r.node)
           /\ clock' = r.clock
           /\ created' = Append(created, r.node)
           /\ hist' = Append(hist, Entry(node_id(r.node), r.node))
    /\ UNCHANGED <<res, peer, buf, prev, lim, ret, panicked, n1, n2, id1, id2, th>>

Insert(cursor, body) ==
    /\ clock < MaxClock
    /\ LET r == insert(cursor, body, clock)
       IN  /\ last' = Some(r.node)
           /\ clock' = r.clock
           /\ created' = Append(created, r.node)
    /\ UNCHANGED <<hist, res, peer, buf, prev, lim, ret, panicked, n1, n2, id1, id2, th>>

Delete(cursor) ==
    /\ clock < MaxClock
    /\ LET r == delete(cursor, clock)
       IN  /\ last' = Some(r.node)
           /\ clock' = r.clock
           /\ created' = Append(created, r.node)
    /\ UNCHANGED <<hist, res, peer, buf, prev, lim, ret, panicked, n1, n2, id1, id2, th>>

Root(tick) ==
    /\ last' = Some(root(tick))
    /\ UNCHANGED <<hist, clock, created, res, peer, buf, prev, lim, ret, panicked,
                   n1, n2, id1, id2, th>>

Store ==
    /\ IsSome(last)
    /\ LET r == History_insert(hist, Unwrap(last))
       IN  /\ Len(r.hist) <= MaxNodes
           /\ hist' = r.hist
           /\ res' = Some(r.res)
    /\ last' = None
    /\ UNCHANGED <<clock, created, peer, buf, prev, lim, ret, panicked, n1, n2, id1, id2, th>>

NextEdit ==
    \/ \E cursor \in Cursors(hist), body \in Bodies : Insert(cursor, body)
    \/ \E cursor \in Cursors(hist) : Delete(cursor)
    \/ \E tick \in RemoteTicks : Root(tick)
    \/ Store

SpecEdit == Init /\ [][NextEdit]_vars

(***************************************************************************)
(* SpecConv: two replicas.  The first receives Operations whose parent it  *)
(* holds; the transport hands each of them on to the second, in any order. *)
(***************************************************************************)
ConvOps(h) ==
    {op \in {new(t, Some(id), a) : t \in RemoteTicks, id \in ids(h),
                                   a \in Actions(Offsets, Bodies) \ {Null}} :
        node_id(op) \notin ids(h)}

Sync(op) ==
    /\ peer' = History_insert(peer, op).hist
    /\ peer' # peer
    /\ UNCHANGED <<hist, clock, last, created, res, buf, prev, lim, ret, panicked,
                   n1, n2, id1, id2, th>>

NextConv ==
    \/ \E op \in ConvOps(hist) : Receive(op)
    \/ \E op \in ops(hist) : Sync(op)

SpecConv == Init /\ [][NextConv]_vars

(***************************************************************************)
(* SpecProject: a renderer applies Operations to its live buffer with      *)
(* Node::project.  A panic ends the run.                                   *)
(***************************************************************************)
\* "H", "He", and U+00E9, which is two bytes
ProjBodies == {<<72>>, <<72, 101>>, <<195, 169>>}

ProjNodes ==
    {new(1, Some(History_new.hist[1].id), a) : a \in Actions(0..MaxPos, ProjBodies)}

Limits == {None} \cup {Some(l) : l \in 0..MaxLimit}

Project(n, limit) ==
    /\ ~panicked
    /\ LET r == project(n, buf, limit)
       IN  /\ Len(r.buf) <= MaxBuf
           /\ buf' = r.buf
           /\ ret' = IF r.panic THEN None ELSE Some(r.ret)
           /\ panicked' = r.panic
    /\ prev' = buf
    /\ last' = Some(n)
    /\ lim' = limit
    /\ UNCHANGED <<hist, clock, created, res, peer, n1, n2, id1, id2, th>>

NextProject == \E n \in ProjNodes, limit \in Limits : Project(n, limit)

SpecProject == Init /\ [][NextProject]_vars

(***************************************************************************)
(* SpecId: node_id on two Nodes.                                           *)
(***************************************************************************)
IdTicks == {0, 1, 10}

IdNodes ==
    {new(t, p, a) : t \in IdTicks,
                    p \in {None, Some(NULL), Some(node_id(root(0)))},
                    a \in Actions({0, 1}, Bodies)}

InitId ==
    /\ Init!1 /\ Init!2 /\ Init!3 /\ Init!4 /\ Init!5 /\ Init!6
    /\ Init!7 /\ Init!8 /\ Init!9 /\ Init!10 /\ Init!11 /\ Init!16
    /\ n1 \in IdNodes
    /\ n2 \in IdNodes
    /\ id1 = None
    /\ id2 = None

Hash1 ==
    /\ id1' = Some(node_id(n1))
    /\ UNCHANGED <<hist, clock, last, created, res, peer, buf, prev, lim, ret,
                   panicked, n1, n2, id2, th>>

Hash2 ==
    /\ id2' = Some(node_id(n2))
    /\ UNCHANGED <<hist, clock, last, created, res, peer, buf, prev, lim, ret,
                   panicked, n1, n2, id1, th>>

NextId == Hash1 \/ Hash2

SpecId == InitId /\ [][NextId]_vars

(***************************************************************************)
(* SpecThreads: threads that share one History.  A call of Node::insert    *)
(* or Node::delete first takes its tick from the clock (increment_clock,   *)
(* one step) and then builds and returns the Operation, which the thread   *)
(* hands to the History, a second step; the steps of the threads           *)
(* interleave in any order.  Node::root touches no clock.                  *)
(***************************************************************************)
\* offsets of the Cursors the threads edit at
EditOffsets == {0, 1}

EditCursors(h) == {Cursor(id, o) : id \in ids(h), o \in EditOffsets}

\* the threads inside a call
Calling == {t \in Threads : IsSome(th[t])}

InsertCall(t, cursor, body) ==
    /\ th[t] = None
    /\ clock < MaxClock
    /\ Len(hist) + Cardinality(Calling) < MaxNodes
    /\ LET r == insert(cursor, body, clock)
       IN  /\ clock' = r.clock
           /\ th' = [th EXCEPT ![t] = Some(r.node)]
    /\ UNCHANGED <<hist, last, created, res, peer, buf, prev, lim, ret, panicked,
                   n1, n2, id1, id2>>

DeleteCall(t, cursor) ==
    /\ th[t] = None
    /\ clock < MaxClock
    /\ Len(hist) + Cardinality(Calling) < MaxNodes
    /\ LET r == delete(cursor, clock)
       IN  /\ clock' = r.clock
           /\ th' = [th EXCEPT ![t] = Some(r.node)]
    /\ UNCHANGED <<hist, last, created, res, peer, buf, prev, lim, ret, panicked,
                   n1, n2, id1, id2>>

Return(t) ==
    /\ IsSome(th[t])
    /\ last' = th[t]
    /\ created' = Append(created, Unwrap(th[t]))
    /\ LET r == History_insert(hist, Unwrap(th[t]))
       IN  /\ hist' = r.hist
           /\ res' = Some(r.res)
    /\ th' = [th EXCEPT ![t] = None]
    /\ UNCHANGED <<clock, peer, buf, prev, lim, ret, panicked, n1, n2, id1, id2>>

NextThreads ==
    \/ \E t \in Threads, cursor \in EditCursors(hist), body \in Bodies :
           InsertCall(t, cursor, body)
    \/ \E t \in Threads, cursor \in EditCursors(hist) : DeleteCall(t, cursor)
    \/ \E t \in Threads : Return(t)
    \/ \E tick \in RemoteTicks : Root(tick)

SpecThreads == Init /\ [][NextThreads]_vars

(***************************************************************************)
(* SpecDet: node_id is called on one Node twice, at any two moments of a   *)
(* History that is edited in between (the clock advances, Operations are   *)
(* stored).  The Nodes are those of test1: root(0), an Insert under it and *)
(* an Insert under that.                                                   *)
(***************************************************************************)
Chain1 == new(1, Some(node_id(root(0))), InsertAction(0, <<72>>))
Chain2 == new(2, Some(node_id(Chain1)), InsertAction(0, <<101>>))

DetNodes == {root(0), Chain1, Chain2}

InitDet ==
    /\ Init!1 /\ Init!2 /\ Init!3 /\ Init!4 /\ Init!5 /\ Init!6
    /\ Init!7 /\ Init!8 /\ Init!9 /\ Init!10 /\ Init!11 /\ Init!16
    /\ n1 \in DetNodes
    /\ n2 = n1
    /\ id1 = None
    /\ id2 = None

NextDet ==
    \/ Hash1
    \/ Hash2
    \/ \E cursor \in Cursors(hist), body \in Bodies : Insert(cursor, body)
    \/ \E cursor \in Cursors(hist) : Delete(cursor)
    \/ Store

SpecDet == InitDet /\ [][NextDet]_vars

(***************************************************************************)
(* SpecFrame: one History that is edited locally (Node::insert,            *)
(* Node::delete, then Store) while the transport delivers the Operations   *)
(* of other replicas, whose clocks run through the same values.            *)
(***************************************************************************)
\* the first edits another replica makes under the root: its clock,
\* like this one's, is 1 after construction
FirstEdits(h) ==
    {op \in {new(History_new.clock, Some(h[1].id), a) :
                 a \in Actions(Offsets, Bodies) \ {Null}} :
        node_id(op) \notin ids(h)}

NextFrame ==
    \/ \E op \in FirstEdits(hist) : Receive(op)
    \/ \E cursor \in Cursors(hist), body \in Bodies : Insert(cursor, body)
    \/ \E cursor \in Cursors(hist) : Delete(cursor)
    \/ Store

SpecFrame == Init /\ [][NextFrame]_vars

(***************************************************************************)
(* SpecView: a renderer keeps a live view of one History.  The view starts *)
(* as the materialization of the History as constructed; each Operation    *)
(* the History newly stores is applied to the view with Node::project      *)
(* under the limit None.                                                   *)
(***************************************************************************)
Render(op) ==
    LET r == History_insert(hist, op)
        p == project(op, buf, None)
    IN  /\ Len(r.hist) <= MaxNodes
        /\ hist' = r.hist
        /\ res' = Some(r.res)
        /\ IF r.hist # hist
           THEN /\ buf' = p.buf
                /\ prev' = buf
                /\ ret' = Some(p.ret)
                /\ last' = Some(op)
           ELSE UNCHANGED <<buf, prev, ret, last>>
        /\ UNCHANGED <<clock, created, peer, lim, panicked, n1, n2, id1, id2, th>>

\* the Operations the History is given: those that name a parent, stored
\* or not
ViewOps(h) == {op \in RemoteOps(h) : IsSome(parent(op))}

NextView == \E op \in ViewOps(hist) : Render(op)

SpecView == Init /\ [][NextView]_vars

(***************************************************************************)
(* The properties.                                                         *)
(***************************************************************************)
\* a before b: at the first place where they differ a has the smaller
\* byte, or a ends there
LexLess(a, b) ==
    LET n == Min(Len(a), Len(b))
        D == {i \in 1..n : a[i] # b[i]}
    IN  IF D = {} THEN Len(a) < Len(b)
        ELSE LET d == CHOOSE i \in D : \A j \in D : i <= j
             IN  a[d] < b[d]

\* the slice of its body an Insert splices under a limit
Slice(n, limit) ==
    SubSeq(n.action.body, 1,
           IF limit = None THEN Len(n.action.body)
           ELSE Min(Len(n.action.body), limit[1]))

\* the limit falls inside a character of the body
SplitsChar(n, limit) ==
    /\ limit # None
    /\ limit[1] < Len(n.action.body)
    /\ n.action.body[limit[1] + 1] >= 128
    /\ n.action.body[limit[1] + 1] < 192

\* C1 (SpecConv): two Histories that hold the same set of Operations
\* materialize to the same text, in whatever order each received them.
Convergence == ops(hist) = ops(peer) => materialize(hist) = materialize(peer)

\* two siblings that both insert text reached the replicas in opposite orders
ConvergenceWitness ==
    /\ Len(hist) = 3 /\ Len(peer) = 3
    /\ hist[2] = peer[3] /\ hist[3] = peer[2]
    /\ hist[2].op.parent = hist[3].op.parent
    /\ Len(materialize(hist)) = 2
    /\ materialize(hist) = materialize(peer)

\* C2 (SpecId): two Nodes with the same parent and the same action and
\* different ticks have different Identifiers.
TickCollisionAvoidance ==
    (/\ id1 # None /\ id2 # None
     /\ n1.parent = n2.parent /\ n1.action = n2.action
     /\ n1.tick # n2.tick)
    => id1 # id2

TickCollisionAvoidanceWitness ==
    /\ id1 # None /\ id2 # None
    /\ n1.parent = n2.parent /\ n1.parent # None
    /\ n1.action = n2.action /\ n1.action.tag = "Insert"
    /\ n1.tick = 1 /\ n2.tick = 10
    /\ id1 # id2

\* C3 (SpecEdit): the clock has advanced by one for each Operation that
\* took its tick from it, no two of these Operations (the root the History
\* was constructed with included) have the same tick, every Node::insert or
\* Node::delete call advances the clock by exactly one, every other step
\* leaves it as it is, and it never decreases.
LogicalClock ==
    /\ [](/\ clock = Len(created)
          /\ \A i, j \in 1..Len(created) : i # j => created[i].tick # created[j].tick)
    /\ [][/\ clock' >= clock
          /\ created' # created => clock' = clock + 1
          /\ created' = created => clock' = clock]_vars

\* an insert and a delete were both called, and the clock is at its bound
LogicalClockWitness ==
    /\ clock = MaxClock
    /\ \E i \in 1..Len(created) : created[i].action.tag = "Insert"
    /\ \E i \in 1..Len(created) : created[i].action.tag = "Delete"
    /\ created[1] = root(0)

\* C4 (Spec): inserting an Operation that is stored already returns Ok
\* with the Identifier it is stored under, which is the Identifier its first
\* insertion returned (its node_id), and leaves the mapping and the
\* materialized text as they were.
IdempotentInsertion ==
    /\ \A i \in 1..Len(hist) :
          LET r == History_insert(hist, hist[i].op)
          IN  /\ r.res = Ok(hist[i].id)
              /\ r.hist = hist
              /\ materialize(r.hist) = materialize(hist)
              /\ hist[i].id = node_id(hist[i].op)
    /\ \A i, j \in 1..Len(hist) : i # j => hist[i].id # hist[j].id
    /\ (res # None /\ res[1].ok) =>
          \E i \in 1..Len(hist) : res[1].id = hist[i].id

\* the second Operation stored was inserted again after the third
IdempotentInsertionWitness ==
    /\ Len(hist) = 3
    /\ res = Some(Ok(hist[2].id))

\* C5 (Spec): inserting an Operation whose parent is Some(id), id not in
\* the mapping, returns DanglingParent and leaves the mapping as it is; so
\* the parent of every stored Operation that has one is stored.
DanglingParentRejected ==
    /\ \A op \in RemoteOps(hist) :
          (op.parent # None /\ op.parent[1] \notin {hist[i].id : i \in 1..Len(hist)})
          => History_insert(hist, op) = [hist |-> hist, res |-> Err("DanglingParent")]
    /\ \A i \in 1..Len(hist) :
          hist[i].op.parent # None
          => \E j \in 1..Len(hist) : hist[i].op.parent = <<hist[j].id>>
    /\ (res # None /\ ~res[1].ok) => res[1].err = "DanglingParent"

\* an insertion was rejected for its parent after others were stored
DanglingParentRejectedWitness ==
    /\ res = Some(Err("DanglingParent"))
    /\ Len(hist) = MaxNodes

\* C6 (Spec): exactly one stored Operation has no parent, it is the root
\* (Null, tick 0), and every other stored Operation's parent is stored
\* before it, so that its parent links lead to the root.
RootedTree ==
    /\ hist[1].op = root(0)
    /\ \A i \in 2..Len(hist) :
          /\ hist[i].op.parent # None
          /\ \E j \in 1..(i - 1) : hist[i].op.parent = <<hist[j].id>>

\* C7 (Spec): children_of(P) is the Identifiers of the stored Operations
\* whose parent is Some(P), each once, ascending byte by byte.
SiblingOrdering ==
    \A i \in 1..Len(hist) :
        LET P == hist[i].id
            c == children_of(hist, P)
        IN  /\ {c[k] : k \in 1..Len(c)}
                 = {hist[j].id : j \in {m \in 1..Len(hist) : hist[m].op.parent = <<P>>}}
            /\ \A k, m \in 1..Len(c) : k < m => LexLess(c[k], c[m])

\* two children of the root arrived in descending order of Identifier
SiblingOrderingWitness ==
    /\ Len(hist) = 3
    /\ hist[2].op.parent = <<hist[1].id>>
    /\ hist[3].op.parent = <<hist[1].id>>
    /\ LexLess(hist[3].id, hist[2].id)
    /\ children_of(hist, hist[1].id) = <<hist[3].id, hist[2].id>>

Ascending(S) ==
    [k \in 1..Cardinality(S) |->
        CHOOSE x \in S : Cardinality({y \in S : LexLess(y, x)}) = k - 1]

RECURSIVE PreOrder(_, _)
\* the Identifiers of h from those of todo on: each before its children,
\* its children, ascending, before what follows it
PreOrder(h, todo) ==
    IF todo = <<>> THEN <<>>
    ELSE LET P == Head(todo)
             kids == {h[i].id : i \in {j \in 1..Len(h) : h[j].op.parent = <<P>>}}
         IN  <<P>> \o PreOrder(h, Ascending(kids) \o Tail(todo))

RECURSIVE Replay(_, _, _)
\* the buffer after the Operations of order are projected onto b in turn
Replay(h, order, b) ==
    IF order = <<>> THEN b
    ELSE LET op == h[CHOOSE i \in 1..Len(h) : h[i].id = Head(order)].op
         IN  Replay(h, Tail(order), project(op, b, None).buf)

\* every Operation after the root is an Insert at offset 0 whose parent is
\* the Operation stored before it
InsertChain(h) ==
    \A i \in 2..Len(h) :
        /\ h[i].op.parent = <<h[i - 1].id>>
        /\ h[i].op.action.tag = "Insert"
        /\ h[i].op.action.offset = 0

RECURSIVE BodiesLastFirst(_, _)
BodiesLastFirst(h, i) ==
    IF i < 2 THEN <<>> ELSE h[i].op.action.body \o BodiesLastFirst(h, i - 1)

\* C9 (SpecEdit): materialize is the replay of the Operations in pre-order
\* (each after its parent and before its children, children ascending by
\* Identifier), each projected onto the buffer as the ones before left it;
\* for a chain of Inserts at offset 0 the text is the bodies, last first.
PreOrderReplay ==
    /\ materialize(hist) = Replay(hist, PreOrder(hist, <<hist[1].id>>), <<>>)
    /\ InsertChain(hist) => materialize(hist) = BodiesLastFirst(hist, Len(hist))

\* root (tick 0), then "H" at offset 0 (tick 1), then "e" at offset 0 of
\* that (tick 2): "eH"
PreOrderReplayWitness ==
    /\ Len(hist) = 3
    /\ hist[2].op = new(1, Some(hist[1].id), InsertAction(0, <<72>>))
    /\ hist[3].op = new(2, Some(hist[2].id), InsertAction(0, <<101>>))
    /\ materialize(hist) = <<101, 72>>

\* C10 as claimed (SpecProject): project returns the length of the body
\* for an Insert, -1 for a Delete and 0 for a Null.
SignedDeltaAsClaimed ==
    (last # None /\ ret # None) =>
        ret[1] = CASE last[1].action.tag = "Insert" -> Len(last[1].action.body)
                   [] last[1].action.tag = "Delete" -> -1
                   [] last[1].action.tag = "Null" -> 0

\* C10 (SpecProject): project, when it returns, returns the length of the
\* slice it splices for an Insert (the length of the body under limit None,
\* the smaller of that and the limit under Some(limit)), -1 for a Delete
\* and 0 for a Null.
SignedDelta ==
    (last # None /\ ~panicked) =>
        /\ ret # None
        /\ ret[1] = CASE last[1].action.tag = "Insert" ->
                           IF lim = None THEN Len(last[1].action.body)
                           ELSE Min(Len(last[1].action.body), lim[1])
                      [] last[1].action.tag = "Delete" -> -1
                      [] last[1].action.tag = "Null" -> 0

\* a two-byte body was projected under the limit 1, and 1 came back
SignedDeltaWitness ==
    /\ last # None
    /\ last[1].action.tag = "Insert"
    /\ Len(last[1].action.body) = 2
    /\ lim = Some(1)
    /\ ret = Some(1)

\* C11 (SpecThreads): Node::insert(cursor, text) makes the Operation with
\* parent Some(cursor.node_id), payload Insert{offset: cursor.offset, text}
\* and, as tick, the value the clock had before the call advanced it, and
\* returns that Operation; Node::delete does the same with the payload
\* Delete{offset: cursor.offset}; Node::root(tick) returns the Operation
\* with that tick, no parent and the payload Null.
OperationFactory ==
    [][/\ \A t \in Threads, cursor \in EditCursors(hist), body \in Bodies :
            InsertCall(t, cursor, body) =>
                th'[t] = Some([tick |-> clock,
                               parent |-> Some(cursor.node_id),
                               action |-> [tag |-> "Insert",
                                           offset |-> cursor.offset,
                                           body |-> body]])
       /\ \A t \in Threads, cursor \in EditCursors(hist) :
            DeleteCall(t, cursor) =>
                th'[t] = Some([tick |-> clock,
                               parent |-> Some(cursor.node_id),
                               action |-> [tag |-> "Delete",
                                           offset |-> cursor.offset]])
       /\ \A t \in Threads : Return(t) => last' = th[t]
       /\ \A tick \in RemoteTicks :
            Root(tick) => last' = Some([tick |-> tick, parent |-> None,
                                        action |-> [tag |-> "Null"]])
      ]_vars

\* a Delete made at offset 1 of a stored Insert at the clock value 2 was
\* returned
OperationFactoryWitness ==
    /\ last # None
    /\ last[1].action = [tag |-> "Delete", offset |-> 1]
    /\ last[1].tick = 2
    /\ clock = 3
    /\ \E i \in 2..Len(hist) :
          /\ last[1].parent = Some(hist[i].id)
          /\ hist[i].op.action.tag = "Insert"

\* C12 (SpecThreads): in every interleaving of the threads' calls each
\* increment of the clock is one indivisible step: no two Operations made,
\* returned or still being built, have the same tick, and no increment is
\* lost: the clock has advanced once for each of them.
AtomicClock ==
    LET made == [i \in 1..Len(created) |-> created[i].tick]
        flying == {t \in Threads : th[t] # None}
    IN  /\ \A i, j \in 1..Len(created) : i # j => made[i] # made[j]
        /\ \A t \in flying : \A i \in 1..Len(created) : th[t][1].tick # made[i]
        /\ \A t, u \in flying : t # u => th[t][1].tick # th[u][1].tick
        /\ clock = Len(created) + Cardinality(flying)

\* two threads are inside a call at once, and the one that took its tick
\* second has returned first
AtomicClockWitness ==
    /\ \E t \in Threads : th[t] # None /\ th[t][1].tick = 1
    /\ Len(created) >= 2
    /\ created[2].tick = 2

CallFrame ==
    /\ hist' = hist
    /\ peer' = peer
    /\ res' = res
    /\ <<buf, prev, lim, ret, panicked>>' = <<buf, prev, lim, ret, panicked>>
    /\ Len(created') = Len(created) + 1
    /\ SubSeq(created', 1, Len(created)) = created
    /\ last' = Some(created'[Len(created')])
    /\ clock' = clock + 1

\* C14 as claimed (SpecFrame): Node::insert and Node::delete change
\* nothing but the clock, and the new Operation is not in the mapping
\* after the call.
CreationFrameAsClaimed ==
    [][created' # created =>
          /\ CallFrame
          /\ node_id(created'[Len(created')]) \notin ids(hist')]_vars

\* C14 (SpecFrame): Node::insert and Node::delete change nothing but the
\* clock: the mapping and every Operation made before are as they were, so
\* the new Operation is in the mapping after the call only if an equal
\* Operation, received from another replica, was in it before.
CreationFrame ==
    [][created' # created =>
          /\ CallFrame
          /\ (node_id(created'[Len(created')]) \in ids(hist') =>
                 \E i \in 1..Len(hist) : hist[i].op = created'[Len(created')])]_vars

\* an Operation was made while the History held two Operations, and it is
\* not stored
CreationFrameWitness ==
    /\ Len(hist) = 3
    /\ Len(created) > 1
    /\ last = Some(created[Len(created)])
    /\ node_id(last[1]) \notin ids(hist)

\* C15 (SpecView): the live view, which starts as the materialization and
\* has project of each newly stored Operation applied to it in the order
\* of insertion, is the materialization of the History after every
\* insertion.
IncrementalView == buf = materialize(hist)

\* C16 (SpecProject): project under Some(L) of an Insert whose offset is
\* within the buffer splices exactly the first min(len(body), L) units of
\* the body at the offset, keeps the units before and after it in order
\* and returns min(len(body), L); under None the whole body is spliced.
LengthLimit ==
    (/\ last # None
     /\ last[1].action.tag = "Insert"
     /\ last[1].action.offset <= Len(prev)) =>
        LET body == last[1].action.body
            offset == last[1].action.offset
            n == IF lim = None THEN Len(body) ELSE Min(Len(body), lim[1])
        IN  /\ ~panicked
            /\ buf = SubSeq(prev, 1, offset) \o SubSeq(body, 1, n)
                        \o SubSeq(prev, offset + 1, Len(prev))
            /\ ret = Some(n)

ReturnedDelta ==
    (last # None /\ ret # None) => ret[1] = Len(buf) - Len(prev)

\* C19 (SpecId): a Node with no parent and a Node with a parent, equal in
\* tick and action, never have the same Identifier, whatever the parent's
\* Identifier is, NodeId([0; 32]) included.
ParentSeparation ==
    (/\ id1 # None
     /\ id2 # None
     /\ parent(n1) = None
     /\ parent(n2) # None
     /\ n1.tick = n2.tick
     /\ n1.action = n2.action) => id1 # id2
====
